---- MODULE Spec2Model ----
(***************************************************************************)
(* Render job orchestration of BlenderRenderFarm: the upload handler of    *)
(* backend/app.py, the Celery task render_blend_file of backend/tasks.py,  *)
(* and the status and download readers of backend/app.py.                  *)
(*                                                                         *)
(* Python values: None is the empty tuple <<>> and a present value v is    *)
(* the one-element tuple <<v>>, so that None, 0 and "" stay distinct and   *)
(* Python truthiness (Truthy) can be computed as the code computes it.     *)
(***************************************************************************)
EXTENDS Integers, Sequences, FiniteSets, TLC

VARIABLES
    kwargs,         \* job id -> arguments handed to apply_async (None before submission)
    queue,          \* broker queue: job ids in submission order
    resp,           \* HTTP status code of the last upload response (0: none yet)
    state,          \* result backend: task id -> Celery state
    info,           \* result backend: task id -> meta / return value / exception
    pc,             \* position of the worker executing render_blend_file for the job
    proc,           \* the child render process of the job
    returncode,     \* exit code of the child process once it has exited
    output_lines,   \* the task's local list output_lines
    inputExists,    \* os.path.exists(blend_file_path)
    outdirExists,   \* os.path.exists(RENDER_FOLDER/job_id)
    outfiles,       \* os.listdir(RENDER_FOLDER/job_id)
    clock,          \* latest reading of time.time() - start_time by the task
    cancelRequested \* a client has asked to cancel the job while it was running

vars == <<kwargs, queue, resp, state, info, pc, proc, returncode, output_lines,
          inputExists, outdirExists, outfiles, clock, cancelRequested>>

(***************************************************************************)
(* Bounds of the model.                                                    *)
(***************************************************************************)
MaxJobs == 3
PoolJobs == 2
QueueLines == 1
MaxLines == 2
MaxFrame == 2
NumWorkers == 2

Jobs == 1..MaxJobs

(***************************************************************************)
(* config.py                                                               *)
(***************************************************************************)
DEFAULT_SAMPLES == 128
DEFAULT_RESOLUTION_X == 1920
DEFAULT_RESOLUTION_Y == 1080
SUPPORTED_FORMATS == {"PNG", "JPEG", "OPEN_EXR", "FFMPEG"}
ALLOWED_EXTENSIONS == {"blend", "zip", "rar"}

None == <<>>
Some(v) == <<v>>
Val(x) == x[1]
\* Python truthiness of an optional integer: None and 0 are falsy.
Truthy(x) == x # None /\ Val(x) # 0
\* Python `a or b` on an optional integer a and an integer b.
OrElse(x, d) == IF Truthy(x) THEN Val(x) ELSE d

(***************************************************************************)
(* Arithmetic of the progress formulas.  Python computes                   *)
(* int((a / b) * 90) in IEEE double precision: the quotient truncated      *)
(* toward zero, except where the rounded quotient a / b times 90 falls     *)
(* just below an integer that the exact value 90a/b reaches.               *)
(***************************************************************************)
Abs(n) == IF n < 0 THEN -n ELSE n
Sign(n) == IF n < 0 THEN -1 ELSE 1
Min(a, b) == IF a < b THEN a ELSE b
\* int(x) of the exact quotient n / d (d # 0): truncation toward zero.
TruncDiv(n, d) == Sign(n) * Sign(d) * (Abs(n) \div Abs(d))
\* Pairs <<|a|, |b|>> (|a|, |b| <= 12) where the double (a / b) * 90 is below
\* the integer 90a/b, so that int() yields one less in magnitude.
FloatShort == {<<7, 5>>, <<7, 10>>}
\* Variant of PyInt90: the share of what is left, not of what is done.
PyInt90Remaining(a, b) == TruncDiv(90 * (b - a), b)
PyInt90(a, b) ==
    LET q == TruncDiv(90 * a, b)
    IN  IF <<Abs(a), Abs(b)>> \in FloatShort THEN q - Sign(q) ELSE q

(***************************************************************************)
(* The upload request: request.files['file'] and request.form.  A form     *)
(* field is None when absent and Some(v) when present; numeric fields      *)
(* carry the integer their decimal string denotes.                         *)
(***************************************************************************)
FileNames == {"", "scene.blend", "scene.zip", "empty.zip", "notes.txt", "noext"}
\* filename.rsplit('.', 1)[1].lower(), "" when the name has no dot.
Ext(filename) ==
    CASE filename = "scene.blend" -> "blend"
      [] filename = "scene.zip"   -> "zip"
      [] filename = "empty.zip"   -> "zip"
      [] filename = "notes.txt"   -> "txt"
      [] OTHER                    -> ""
allowed_file(filename) == Ext(filename) # "" /\ Ext(filename) \in ALLOWED_EXTENSIONS
\* os.walk of the extracted archive finds a .blend file.
ArchiveHasBlend(filename) == filename = "scene.zip"
IsArchive(filename) == Ext(filename) \in {"zip", "rar"}

BaseForm ==
    [file |-> Some("scene.blend"), format |-> None, samples |-> None,
     resolution_x |-> None, resolution_y |-> None,
     frame_start |-> None, frame_end |-> None]

\* frame_start / frame_end fields: neither, exactly one, a range from 0, a
\* range up to 0, a proper range, a one-frame range, and inverted ranges.
FramePairs ==
    {<<None, None>>, <<Some(1), None>>, <<None, Some(1)>>,
     <<Some(0), Some(MaxFrame)>>, <<Some(-1), Some(0)>>,
     <<Some(1), Some(MaxFrame)>>, <<Some(MaxFrame + 1), Some(MaxFrame + 1)>>,
     <<Some(2), Some(1)>>, <<Some(MaxFrame + 1), Some(1)>>}

Forms ==
       {[BaseForm EXCEPT !.file = f] : f \in {None} \cup {Some(n) : n \in FileNames}}
  \cup {[BaseForm EXCEPT !.format = Some("BMP")],
        [BaseForm EXCEPT !.samples = Some(0)],
        [BaseForm EXCEPT !.resolution_x = Some(-1)],
        [BaseForm EXCEPT !.resolution_y = Some(0)]}
  \cup {[BaseForm EXCEPT !.frame_start = p[1], !.frame_end = p[2]] : p \in FramePairs}

PoolForms == {BaseForm}

\* request.form.get(name, default) followed by int().
FormInt(field, default) == IF field = None THEN default ELSE Val(field)
\* int(x) if x else None: a present field is a non-empty string, hence truthy.
FormFrame(field) == IF field = None THEN None ELSE Some(Val(field))

\* The arguments upload_file hands to render_blend_file.apply_async.
TaskArgs(form) ==
    [output_format |-> IF form.format = None THEN "PNG" ELSE Val(form.format),
     samples       |-> FormInt(form.samples, DEFAULT_SAMPLES),
     resolution_x  |-> FormInt(form.resolution_x, DEFAULT_RESOLUTION_X),
     resolution_y  |-> FormInt(form.resolution_y, DEFAULT_RESOLUTION_Y),
     frame_start   |-> FormFrame(form.frame_start),
     frame_end     |-> FormFrame(form.frame_end)]

\* The status code upload_file answers with.
UploadCode(form) ==
    IF form.file = None THEN 400
    ELSE IF Val(form.file) = "" THEN 400
    ELSE IF ~allowed_file(Val(form.file)) THEN 400
    ELSE IF TaskArgs(form).output_format \notin SUPPORTED_FORMATS THEN 400
    ELSE IF IsArchive(Val(form.file)) /\ ~ArchiveHasBlend(Val(form.file)) THEN 400
    ELSE 202

Submitted(j) == kwargs[j] # None
\* uuid4 yields an identifier no earlier submission used.
FreshId(j) == ~Submitted(j) /\ \A i \in Jobs : i < j => Submitted(i)

\* Variant of upload_file: the handler itself stores the first progress
\* record of the task it queues.
upload_fileStarted(j, form) ==
    /\ FreshId(j)
    /\ resp' = UploadCode(form)
    /\ IF UploadCode(form) = 202
       THEN /\ kwargs' = [kwargs EXCEPT ![j] = Some(TaskArgs(form))]
            /\ inputExists' = [inputExists EXCEPT ![j] = TRUE]
            /\ queue' = Append(queue, j)
            /\ state' = [state EXCEPT ![j] = "PROGRESS"]
            /\ info' = [info EXCEPT ![j] =
                            [kind |-> "meta", status |-> <<"Starting render...">>,
                             progress |-> 0, current_frame |-> None,
                             total_frames |-> None]]
       ELSE UNCHANGED <<kwargs, inputExists, queue, state, info>>
    /\ UNCHANGED <<pc, proc, returncode, output_lines,
                   outdirExists, outfiles, clock, cancelRequested>>

upload_file(j, form) ==
    /\ FreshId(j)
    /\ resp' = UploadCode(form)
    /\ IF UploadCode(form) = 202
       THEN /\ kwargs' = [kwargs EXCEPT ![j] = Some(TaskArgs(form))]
            /\ inputExists' = [inputExists EXCEPT ![j] = TRUE]
            /\ queue' = Append(queue, j)
       ELSE UNCHANGED <<kwargs, inputExists, queue>>
    /\ UNCHANGED <<state, info, pc, proc, returncode, output_lines,
                   outdirExists, outfiles, clock, cancelRequested>>

(***************************************************************************)
(* Output lines of the render process.  A line is described by what the    *)
(* task's tests on it see: whether it contains 'Fra:' and the digits       *)
(* after it (re.search 'Fra:(\d+)'), whether it contains 'Saved:',         *)
(* whether it contains 'Sample' and '/', and the pair matched by           *)
(* 'Sample (\d+)/(\d+)'.                                                   *)
(***************************************************************************)
PlainLine ==
    [hasFra |-> FALSE, fra |-> None, saved |-> FALSE,
     hasSample |-> FALSE, sample |-> None]
FraLine(n) == [PlainLine EXCEPT !.hasFra = TRUE, !.fra = Some(n)]
SavedLine == [PlainLine EXCEPT !.saved = TRUE]
SampleLine(c, t) == [PlainLine EXCEPT !.hasSample = TRUE, !.sample = Some(<<c, t>>)]

SamplePairs == {<<1, 2>>, <<3, 2>>, <<1, 0>>, <<7, 10>>}

Lines ==
       {PlainLine, SavedLine}
  \cup {FraLine(n) : n \in 1..(MaxFrame + 1)}
  \cup {SampleLine(p[1], p[2]) : p \in SamplePairs}
  \cup {[FraLine(1) EXCEPT !.saved = TRUE],
        [FraLine(1) EXCEPT !.hasSample = TRUE, !.sample = Some(<<1, 2>>)],
        [SavedLine EXCEPT !.hasSample = TRUE, !.sample = Some(<<1, 2>>)]}

PoolLines == {SavedLine}

\* Seconds between start_time and a later time.time() reading.
ElapsedVals == {40, 60, 90}
ExitCodes == {0, 1}
OutNames == {"render.png", ".render.tmp"}
\* not f.startswith('.')
Hidden(f) == f = ".render.tmp"
PoolNames == {"render.png"}
Visible(files) == {f \in files : ~Hidden(f)}

(***************************************************************************)
(* The progress meta the task publishes.                                   *)
(***************************************************************************)
Meta(status, progress, current_frame, total_frames) ==
    [kind |-> "meta", status |-> status, progress |-> progress,
     current_frame |-> current_frame, total_frames |-> total_frames]

\* Variant of TotalFrames: the last frame of the range is not counted.
TotalFramesExclusive(a) ==
    IF Truthy(a.frame_end) /\ Truthy(a.frame_start)
    THEN Val(a.frame_end) - Val(a.frame_start)
    ELSE 1

\* total_frames of tasks.py line 89.
TotalFrames(a) ==
    IF Truthy(a.frame_end) /\ Truthy(a.frame_start)
    THEN Val(a.frame_end) - Val(a.frame_start) + 1
    ELSE 1

\* eta_text of tasks.py lines 111-122 (elapsed in whole seconds): None is the
\* empty text, <<"s", n>> is "ETA: ns", <<"m", k, n>> is "ETA: km ns".
EtaText(frames_done, total_frames, elapsed) ==
    IF frames_done > 0
    THEN LET num == (total_frames - frames_done) * elapsed
         IN  IF num > 60 * frames_done
             THEN <<"m", num \div (60 * frames_done), (num \div frames_done) % 60>>
             ELSE <<"s", TruncDiv(num, frames_done)>>
    ELSE None

\* Variant of LineEvent: the 'Saved:' test comes first in the chain.
LineEventSaveFirst(a, line, elapsed) ==
    IF line.saved
    THEN Some(Meta(<<"Finalizing...">>, 95, None, None))
    ELSE IF line.hasFra
    THEN IF line.fra # None
         THEN IF Truthy(a.frame_start)
              THEN LET current_frame == Val(line.fra)
                       frames_done == current_frame - Val(a.frame_start) + 1
                       shown == OrElse(a.frame_end, current_frame)
                   IN  IF TotalFrames(a) = 0
                       THEN None
                       ELSE Some(Meta(<<"Rendering frame", current_frame, shown,
                                        EtaText(frames_done, TotalFrames(a), elapsed)>>,
                                      Min(PyInt90(frames_done, TotalFrames(a)), 90),
                                      Some(current_frame), Some(shown)))
              ELSE Some(Meta(<<"Rendering...">>, 50, None, None))
         ELSE None
    ELSE IF line.hasSample
    THEN IF line.sample # None /\ ~Truthy(a.frame_end)
         THEN LET current_sample == Val(line.sample)[1]
                  total_samples == Val(line.sample)[2]
              IN  IF total_samples = 0
                  THEN None
                  ELSE Some(Meta(<<"Sampling", current_sample, total_samples>>,
                                 PyInt90(current_sample, total_samples), None, None))
         ELSE None
    ELSE None

\* The meta one loop iteration publishes for `line` (tasks.py lines 99-150):
\* None when the line publishes nothing, also when the arithmetic raises
\* inside one of the try blocks (ZeroDivisionError).
LineEvent(a, line, elapsed) ==
    IF line.hasFra
    THEN IF line.fra # None
         THEN IF Truthy(a.frame_start)
              THEN LET current_frame == Val(line.fra)
                       frames_done == current_frame - Val(a.frame_start) + 1
                       shown == OrElse(a.frame_end, current_frame)
                   IN  IF TotalFrames(a) = 0
                       THEN None
                       ELSE Some(Meta(<<"Rendering frame", current_frame, shown,
                                        EtaText(frames_done, TotalFrames(a), elapsed)>>,
                                      Min(PyInt90(frames_done, TotalFrames(a)), 90),
                                      Some(current_frame), Some(shown)))
              ELSE Some(Meta(<<"Rendering...">>, 50, None, None))
         ELSE None
    ELSE IF line.saved
    THEN Some(Meta(<<"Finalizing...">>, 95, None, None))
    ELSE IF line.hasSample
    THEN IF line.sample # None /\ ~Truthy(a.frame_end)
         THEN LET current_sample == Val(line.sample)[1]
                  total_samples == Val(line.sample)[2]
              IN  IF total_samples = 0
                  THEN None
                  ELSE Some(Meta(<<"Sampling", current_sample, total_samples>>,
                                 PyInt90(current_sample, total_samples), None, None))
         ELSE None
    ELSE None

\* The update_state call of the line sits inside a try block with a bare except.
Guarded(line) == line.hasFra \/ ~line.saved
\* The iteration reads time.time().
ReadsClock(a, line) ==
    /\ line.hasFra /\ line.fra # None /\ Truthy(a.frame_start)
    /\ TotalFrames(a) # 0
    /\ Val(line.fra) - Val(a.frame_start) + 1 > 0

(***************************************************************************)
(* The Celery task render_blend_file (tasks.py).                           *)
(***************************************************************************)
Args(j) == Val(kwargs[j])

Exc(type, msg) == [kind |-> "exc", type |-> type, msg |-> msg]
BackendError == Exc("BackendError", <<"result backend unavailable">>)
SpawnError == Exc("FileNotFoundError", <<"No such file or directory">>)
\* Variant of RenderFailed: the message keeps only the last captured line.
RenderFailedTail(code, lines) ==
    Exc("Exception",
        <<"Blender render failed with code", code,
          IF lines = <<>> THEN <<>> ELSE <<lines[Len(lines)]>>>>)

\* Exception(f'Blender render failed with code {returncode}:\n{full_output}')
RenderFailed(code, lines) ==
    Exc("Exception", <<"Blender render failed with code", code, lines>>)

Busy == {j \in Jobs : pc[j] \notin {"idle", "done"}}

\* self.update_state(state='PROGRESS', meta=meta)
update_state(j, meta) ==
    /\ state' = [state EXCEPT ![j] = "PROGRESS"]
    /\ info' = [info EXCEPT ![j] = meta]

\* Variant of Raise: the failed task is recorded as RETRY and run again.
RaiseRetry(j, exc) ==
    /\ inputExists' = [inputExists EXCEPT ![j] = FALSE]
    /\ state' = [state EXCEPT ![j] = "RETRY"]
    /\ info' = [info EXCEPT ![j] = exc]
    /\ pc' = [pc EXCEPT ![j] = "l22"]

\* Variant of Raise: the except clause clears the whole upload folder.
RaiseSweep(j, exc) ==
    /\ inputExists' = [k \in Jobs |-> FALSE]
    /\ state' = [state EXCEPT ![j] = "FAILURE"]
    /\ info' = [info EXCEPT ![j] = exc]
    /\ pc' = [pc EXCEPT ![j] = "done"]

\* An exception leaves the try block: the except clause of lines 172-177
\* removes the input file and re-raises, and Celery records the failure.
Raise(j, exc) ==
    /\ inputExists' = [inputExists EXCEPT ![j] = FALSE]
    /\ state' = [state EXCEPT ![j] = "FAILURE"]
    /\ info' = [info EXCEPT ![j] = exc]
    /\ pc' = [pc EXCEPT ![j] = "done"]

\* A worker of the pool takes the oldest queued task.
Dequeue(j) ==
    /\ queue # <<>> /\ Head(queue) = j
    /\ Cardinality(Busy) < NumWorkers
    /\ queue' = Tail(queue)
    /\ pc' = [pc EXCEPT ![j] = "l22"]
    /\ UNCHANGED <<kwargs, resp, state, info, proc, returncode, output_lines,
                   inputExists, outdirExists, outfiles, clock,
                   cancelRequested>>

\* line 22
Starting(j, ok) ==
    /\ pc[j] = "l22"
    /\ IF ok
       THEN /\ update_state(j, Meta(<<"Starting render...">>, 0, None, None))
            /\ pc' = [pc EXCEPT ![j] = "l25"]
            /\ UNCHANGED inputExists
       ELSE Raise(j, BackendError)
    /\ UNCHANGED <<kwargs, queue, resp, proc, returncode, output_lines,
                   outdirExists, outfiles, clock, cancelRequested>>

\* lines 25-75: the output directory, then the command (no state of its own)
MakeOutputDir(j) ==
    /\ pc[j] = "l25"
    /\ outdirExists' = [outdirExists EXCEPT ![j] = TRUE]
    /\ pc' = [pc EXCEPT ![j] = "l78"]
    /\ UNCHANGED <<kwargs, queue, resp, state, info, proc, returncode,
                   output_lines, inputExists, outfiles, clock,
                   cancelRequested>>

\* line 78
Rendering(j, ok) ==
    /\ pc[j] = "l78"
    /\ IF ok
       THEN /\ update_state(j, Meta(<<"Rendering...">>, 10, None, None))
            /\ pc' = [pc EXCEPT ![j] = "l80"]
            /\ UNCHANGED inputExists
       ELSE Raise(j, BackendError)
    /\ UNCHANGED <<kwargs, queue, resp, proc, returncode, output_lines,
                   outdirExists, outfiles, clock, cancelRequested>>

\* lines 80-92: subprocess.Popen, output_lines = [], start_time
Popen(j, ok) ==
    /\ pc[j] = "l80"
    /\ IF ok
       THEN /\ proc' = [proc EXCEPT ![j] = "running"]
            /\ pc' = [pc EXCEPT ![j] = "loop"]
            /\ UNCHANGED <<state, info, inputExists>>
       ELSE /\ Raise(j, SpawnError)
            /\ UNCHANGED proc
    /\ UNCHANGED <<kwargs, queue, resp, returncode, output_lines,
                   outdirExists, outfiles, clock, cancelRequested>>

\* The number of lines the tasks have read so far, all jobs together.
LinesRead == Cardinality({<<i, n>> \in Jobs \X (1..MaxLines) : n <= Len(output_lines[i])})

\* lines 94-150: one iteration of `for line in process.stdout` on the next
\* line the process writes (the pipe is first-in first-out, so the iterations
\* see the lines in the order the process wrote them); `ok` is whether the
\* backend accepts the update, `now` the clock reading of the iteration.
ReadLine(j, line, ok, now) ==
    /\ pc[j] = "loop" /\ proc[j] = "running"
    /\ LinesRead < MaxLines
    /\ now >= clock[j]
    /\ IF ReadsClock(Args(j), line) THEN TRUE ELSE now = clock[j]
    /\ clock' = [clock EXCEPT ![j] = now]
    /\ output_lines' = [output_lines EXCEPT ![j] = Append(@, line)]
    /\ LET ev == LineEvent(Args(j), line, now)
       IN  IF ev = None \/ (~ok /\ Guarded(line))
           THEN UNCHANGED <<state, info, pc, inputExists>>
           ELSE IF ok
           THEN /\ update_state(j, Val(ev))
                /\ UNCHANGED <<pc, inputExists>>
           ELSE Raise(j, BackendError)
    /\ UNCHANGED <<kwargs, queue, resp, proc, returncode, outdirExists,
                   outfiles, cancelRequested>>

\* Variant of Wait: only a process that exited with code 0 is collected.
WaitSuccessOnly(j) ==
    /\ pc[j] = "loop" /\ proc[j] = "exited"
    /\ Val(returncode[j]) = 0
    /\ proc' = [proc EXCEPT ![j] = "reaped"]
    /\ pc' = [pc EXCEPT ![j] = "l158"]
    /\ UNCHANGED <<kwargs, queue, resp, state, info, inputExists, returncode,
                   output_lines, outdirExists, outfiles, clock,
                   cancelRequested>>

\* lines 152-156: the stream has ended; process.wait() and the exit code
Wait(j) ==
    /\ pc[j] = "loop" /\ proc[j] = "exited"
    /\ proc' = [proc EXCEPT ![j] = "reaped"]
    /\ IF Val(returncode[j]) # 0
       THEN Raise(j, RenderFailed(Val(returncode[j]), output_lines[j]))
       ELSE /\ pc' = [pc EXCEPT ![j] = "l158"]
            /\ UNCHANGED <<state, info, inputExists>>
    /\ UNCHANGED <<kwargs, queue, resp, returncode, output_lines,
                   outdirExists, outfiles, clock, cancelRequested>>

\* lines 158-160
RemoveInput(j) ==
    /\ pc[j] = "l158"
    /\ inputExists' = [inputExists EXCEPT ![j] = FALSE]
    /\ pc' = [pc EXCEPT ![j] = "l163"]
    /\ UNCHANGED <<kwargs, queue, resp, state, info, proc, returncode,
                   output_lines, outdirExists, outfiles, clock,
                   cancelRequested>>

\* lines 163-170: the return value, which Celery records as SUCCESS
Return(j) ==
    /\ pc[j] = "l163"
    /\ state' = [state EXCEPT ![j] = "SUCCESS"]
    /\ info' = [info EXCEPT ![j] =
                  [kind |-> "result", job_id |-> j, status |-> "completed",
                   output_files |-> Visible(outfiles[j])]]
    /\ pc' = [pc EXCEPT ![j] = "done"]
    /\ UNCHANGED <<kwargs, queue, resp, proc, returncode, output_lines,
                   inputExists, outdirExists, outfiles, clock,
                   cancelRequested>>

(***************************************************************************)
(* The render process (render_script.py inside Blender): it writes files   *)
(* below the output path and ends with an exit code.                       *)
(***************************************************************************)
ProcWrite(j, f) ==
    /\ proc[j] = "running"
    /\ f \notin outfiles[j]
    /\ outfiles' = [outfiles EXCEPT ![j] = @ \cup {f}]
    /\ UNCHANGED <<kwargs, queue, resp, state, info, pc, proc, returncode,
                   output_lines, inputExists, outdirExists, clock,
                   cancelRequested>>

ProcExit(j, code) ==
    /\ proc[j] = "running"
    /\ proc' = [proc EXCEPT ![j] = "exited"]
    /\ returncode' = [returncode EXCEPT ![j] = Some(code)]
    /\ UNCHANGED <<kwargs, queue, resp, state, info, pc, output_lines,
                   inputExists, outdirExists, outfiles, clock,
                   cancelRequested>>

(***************************************************************************)
(* Readers of app.py.                                                      *)
(***************************************************************************)
\* get_status: the JSON response for a task id
get_status(j) ==
    CASE state[j] = "PENDING" ->
            [state |-> state[j], status |-> <<"Pending...">>, progress |-> 0,
             result |-> None]
      [] state[j] = "PROGRESS" ->
            [state |-> state[j], status |-> info[j].status,
             progress |-> info[j].progress, result |-> None]
      [] state[j] = "SUCCESS" ->
            [state |-> state[j], status |-> <<"Render completed">>, progress |-> 100,
             result |-> Some(info[j])]
      [] OTHER ->
            [state |-> state[j], status |-> info[j].msg, progress |-> 0,
             result |-> None]

\* download_file: the files sent, the empty set when the answer is 404
download_file(j) ==
    IF ~outdirExists[j] THEN {} ELSE Visible(outfiles[j])

\* list_jobs: every directory under RENDER_FOLDER with its visible files
list_jobs ==
    [j \in {i \in Jobs : outdirExists[i]} |-> Visible(outfiles[j])]

\* The phase a status response shows.
Phase(j) ==
    CASE get_status(j).state = "PENDING"  -> "Queued"
      [] get_status(j).state = "PROGRESS" -> "Running"
      [] get_status(j).state = "SUCCESS"  -> "Succeeded"
      [] OTHER                            -> "Failed"

\* A client asks to cancel job j while it is Running.  app.py has no route
\* for it and the task nothing that listens for it: the request is answered
\* 404 and only the fact that it was made is recorded.
cancel_request(j) ==
    /\ Phase(j) = "Running"
    /\ ~cancelRequested[j]
    /\ cancelRequested' = [cancelRequested EXCEPT ![j] = TRUE]
    /\ resp' = 404
    /\ UNCHANGED <<kwargs, queue, state, info, pc, proc, returncode,
                   output_lines, inputExists, outdirExists, outfiles, clock>>

(***************************************************************************)
(* Specifications.                                                         *)
(***************************************************************************)
Init ==
    /\ kwargs = [j \in Jobs |-> None]
    /\ queue = <<>>
    /\ resp = 0
    /\ state = [j \in Jobs |-> "PENDING"]
    /\ info = [j \in Jobs |-> None]
    /\ pc = [j \in Jobs |-> "idle"]
    /\ proc = [j \in Jobs |-> "none"]
    /\ returncode = [j \in Jobs |-> None]
    /\ output_lines = [j \in Jobs |-> <<>>]
    /\ inputExists = [j \in Jobs |-> FALSE]
    /\ outdirExists = [j \in Jobs |-> FALSE]
    /\ outfiles = [j \in Jobs |-> {}]
    /\ clock = [j \in Jobs |-> 0]
    /\ cancelRequested = [j \in Jobs |-> FALSE]

\* The steps of the jobs J, on upload forms F, output lines L and output
\* file names O.
Step(J, F, L, O) ==
    \E j \in J :
        \/ \E form \in F : upload_file(j, form)
        \/ Dequeue(j)
        \/ \E ok \in BOOLEAN : Starting(j, ok)
        \/ MakeOutputDir(j)
        \/ \E ok \in BOOLEAN : Rendering(j, ok)
        \/ \E ok \in BOOLEAN : Popen(j, ok)
        \/ \E line \in L, ok \in BOOLEAN, now \in ElapsedVals \cup {0} :
               ReadLine(j, line, ok, now)
        \/ Wait(j)
        \/ RemoveInput(j)
        \/ Return(j)
        \/ \E f \in O : ProcWrite(j, f)
        \/ \E code \in ExitCodes : ProcExit(j, code)

\* One job, on every form and every line of the alphabets.
Next == Step({1}, Forms, Lines, OutNames)
Spec == Init /\ [][Next]_vars

\* PoolJobs jobs on a pool of NumWorkers workers, on the reduced alphabets.
PoolNext == Step(1..PoolJobs, PoolForms, PoolLines, PoolNames)
PoolSpec == Init /\ [][PoolNext]_vars

\* The pool, with clients that ask to cancel running jobs.
CancelNext ==
    \/ Step(1..PoolJobs, PoolForms, PoolLines, PoolNames)
    \/ \E j \in 1..PoolJobs : cancel_request(j)
CancelSpec == Init /\ [][CancelNext]_vars

\* MaxJobs jobs, more than the pool has workers: a job can wait in the queue
\* until a worker is done with an earlier one.  The tasks read QueueLines
\* lines at most.
QueueNext ==
    \E j \in Jobs :
        \/ \E form \in PoolForms : upload_file(j, form)
        \/ Dequeue(j)
        \/ \E ok \in BOOLEAN : Starting(j, ok)
        \/ MakeOutputDir(j)
        \/ \E ok \in BOOLEAN : Rendering(j, ok)
        \/ \E ok \in BOOLEAN : Popen(j, ok)
        \/ \E line \in PoolLines, ok \in BOOLEAN, now \in ElapsedVals \cup {0} :
               LinesRead < QueueLines /\ ReadLine(j, line, ok, now)
        \/ Wait(j)
        \/ RemoveInput(j)
        \/ Return(j)
        \/ \E f \in PoolNames : ProcWrite(j, f)
        \/ \E code \in ExitCodes : ProcExit(j, code)
QueueSpec == Init /\ [][QueueNext]_vars

\* The worker's own steps of job j, and the scheduling the claims assume: a
\* worker that can take a step eventually takes one, and a running render
\* process eventually closes its output and exits.
WorkerStep(j) ==
    \/ \E ok \in BOOLEAN : Starting(j, ok)
    \/ MakeOutputDir(j)
    \/ \E ok \in BOOLEAN : Rendering(j, ok)
    \/ \E ok \in BOOLEAN : Popen(j, ok)
    \/ Wait(j)
    \/ RemoveInput(j)
    \/ Return(j)
Fairness ==
    \A j \in Jobs :
        /\ WF_vars(WorkerStep(j))
        /\ WF_vars(\E code \in ExitCodes : ProcExit(j, code))
FairPoolSpec == PoolSpec /\ Fairness

(***************************************************************************)
(* Properties.                                                             *)
(***************************************************************************)
Terminal(j) == Phase(j) \in {"Succeeded", "Failed"}
PhaseRank(ph) ==
    CASE ph = "Queued" -> 0 [] ph = "Running" -> 1 [] OTHER -> 2
ExitedNonZero(j) == returncode[j] # None /\ Val(returncode[j]) # 0

\* C1: the phase shown by status never moves to an earlier phase, and a job
\* that is Succeeded or Failed keeps that phase in every later state.
C1_PhaseOrder ==
    [][\A j \in Jobs :
          /\ PhaseRank(Phase(j)') >= PhaseRank(Phase(j))
          /\ Terminal(j) => Phase(j)' = Phase(j)]_vars
\* Two jobs have run on the pool, one to Succeeded and one to Failed.
C1_Witness ==
    \E j, k \in Jobs : Phase(j) = "Succeeded" /\ Phase(k) = "Failed"

\* C2: a Succeeded job's process exited with code 0 and its result lists at
\* least one non-hidden output file.
C2_SucceededHasArtifacts ==
    \A j \in Jobs :
        Phase(j) = "Succeeded" =>
            /\ returncode[j] = Some(0)
            /\ Val(get_status(j).result).output_files # {}

\* C3: at the step that makes a job Failed, no file is left in the job's
\* output directory.
C3_FailedLeavesNoFiles ==
    [][\A j \in Jobs :
          (Phase(j) # "Failed" /\ Phase(j)' = "Failed") => outfiles'[j] = {}]_vars

C5_DownloadOnlySucceeded ==
    \A j \in Jobs : Phase(j) # "Succeeded" => download_file(j) = {}

\* C6: the percent reported by status is an integer between 0 and 100.
C6_PercentInRange ==
    \A j \in Jobs : get_status(j).progress \in 0..100

\* C7: status reports percent 100 exactly for Succeeded jobs, and a Running
\* job's percent is below 100.
C7_HundredOnlySucceeded ==
    \A j \in Jobs :
        /\ get_status(j).progress = 100 <=> Phase(j) = "Succeeded"
        /\ Phase(j) = "Running" => get_status(j).progress < 100

\* C8: every job a worker has dequeued eventually shows a terminal phase,
\* under the fairness of FairPoolSpec.
C8_EventuallyTerminal ==
    \A j \in Jobs : (pc[j] # "idle") ~> Terminal(j)
\* A job ran to the end after its process exited and was collected.
C8_Witness ==
    \E j \in Jobs : pc[j] = "done" /\ proc[j] = "reaped" /\ Terminal(j)

\* C9: no submitted job has exactly one of frame_start / frame_end set.
C9_NoPartialRange ==
    \A j \in Jobs :
        Submitted(j) =>
            ((Args(j).frame_start = None) <=> (Args(j).frame_end = None))

\* C10: every submitted job has a supported format and strictly positive
\* samples, resolution_x and resolution_y.
C10_QueuedParamsValid ==
    \A j \in Jobs :
        Submitted(j) =>
            /\ Args(j).output_format \in SUPPORTED_FORMATS
            /\ Args(j).samples > 0
            /\ Args(j).resolution_x > 0
            /\ Args(j).resolution_y > 0

\* C11: a job whose cancellation was requested while it was Running
\* eventually reaches Failed with a cancellation reason, its render process
\* no longer running.  Succeeded is terminal, so such a job never shows
\* Succeeded.
C11_CancelledJobFails ==
    \A j \in Jobs : cancelRequested[j] => Phase(j) # "Succeeded"

\* C12: an accepted submission that no worker has dequeued yet shows phase
\* Queued with percent 0.
C12_QueuedBeforeDequeue ==
    \A j \in Jobs :
        (Submitted(j) /\ pc[j] = "idle") =>
            /\ Phase(j) = "Queued"
            /\ get_status(j).progress = 0

C12_Witness ==
    /\ resp = 202
    /\ Submitted(1) /\ pc[1] = "idle"
    /\ Args(1).frame_start # None
    /\ <<1>> = queue

\* C13: the status of an identifier that no submission returned differs from
\* the status of a submitted job that is Queued.
C13_UnknownIdNotFound ==
    \A j, k \in Jobs :
        (~Submitted(j) /\ Submitted(k) /\ Phase(k) = "Queued") =>
            get_status(j) # get_status(k)

\* C14: in a terminal phase the input file is gone, and the input file is
\* never removed while the render process is still running.
C14_InputRemovedAfterProcess ==
    \A j \in Jobs :
        /\ Terminal(j) => ~inputExists[j]
        /\ proc[j] = "running" => inputExists[j]

\* C15: in a terminal phase the render process, if one was started, has
\* exited and has been reaped.
C15_TerminalProcessReaped ==
    \A j \in Jobs : Terminal(j) => proc[j] \in {"none", "reaped"}

\* The task has read one more line of job j in this step; the line it read.
ReadsLine(j) == Len(output_lines'[j]) = Len(output_lines[j]) + 1
LineRead(j) == output_lines'[j][Len(output_lines'[j])]
\* The line matches a marker rule for a job with arguments a: a frame marker
\* with its number, a save marker, or a sample marker c/t of a job without
\* a frame range.
MarkerLine(a, line) ==
    \/ line.hasFra /\ line.fra # None
    \/ line.saved
    \/ line.sample # None /\ a.frame_start = None /\ a.frame_end = None
\* ev is a progress event of one of the markers of the line.
EventOf(line, ev) ==
    /\ ev.kind = "meta"
    /\ \/ /\ line.hasFra /\ line.fra # None
          /\ \/ ev.current_frame = line.fra
             \/ ev.status = <<"Rendering...">> /\ ev.progress = 50
       \/ line.saved /\ ev.status = <<"Finalizing...">>
       \/ /\ line.sample # None
          /\ ev.status[1] = "Sampling"
          /\ <<ev.status[2], ev.status[3]>> = Val(line.sample)

\* C16: the events written for a job are those of its marker-bearing lines,
\* in the order read: when the task reads a line that matches a marker rule,
\* the job state then holds an event of that line (or the failure the line
\* caused); no such line is dropped silently.
C16_NoMarkerLineDropped ==
    [][\A j \in Jobs :
          (ReadsLine(j) /\ MarkerLine(Args(j), LineRead(j))) =>
              \/ state'[j] = "PROGRESS" /\ EventOf(LineRead(j), info'[j])
              \/ state'[j] = "FAILURE"]_vars

\* The events before and after a step are both progress events of job j.
BothEvents(j) ==
    /\ state[j] = "PROGRESS" /\ state'[j] = "PROGRESS"
    /\ info[j].kind = "meta" /\ info'[j].kind = "meta"
IsFrameEvent(ev) == ev.current_frame # None
IsSampleEvent(ev) == ev.status[1] = "Sampling"

\* C17 as first stated: while a job is Running its percent never decreases
\* from one progress event to the next.
C17_PercentNeverDecreases ==
    [][\A j \in Jobs :
          BothEvents(j) => info'[j].progress >= info[j].progress]_vars

\* C17: while a job is Running its percent does not decrease from one
\* progress event to the next when both are frame events of a job with a
\* positive total_frames and the frame number does not go down, or both are
\* sample events with the same total and the sample count does not go down.
C17_PercentMonotonePerMarker ==
    [][\A j \in Jobs :
          (BothEvents(j) /\ ReadsLine(j)) =>
              /\ ( /\ IsFrameEvent(info[j]) /\ IsFrameEvent(info'[j])
                   /\ TotalFrames(Args(j)) > 0
                   /\ Val(info'[j].current_frame) >= Val(info[j].current_frame) )
                 => info'[j].progress >= info[j].progress
              /\ ( /\ IsSampleEvent(info[j]) /\ IsSampleEvent(info'[j])
                   /\ info'[j].status[3] = info[j].status[3]
                   /\ info'[j].status[2] >= info[j].status[2] )
                 => info'[j].progress >= info[j].progress]_vars

\* The second of two frame markers with rising numbers has been published.
C17_Witness ==
    /\ Submitted(1) /\ state[1] = "PROGRESS"
    /\ Args(1).frame_start = Some(1) /\ Args(1).frame_end = Some(MaxFrame)
    /\ output_lines[1] = <<FraLine(1), FraLine(2)>>
    /\ info[1].current_frame = Some(2)
    /\ info[1].progress > 45

\* The job has a frame range the task takes as one: both ends given and
\* non-zero, the end not before the start.
ProperRange(a) ==
    /\ a.frame_start # None /\ a.frame_end # None
    /\ Val(a.frame_start) # 0 /\ Val(a.frame_end) # 0
    /\ Val(a.frame_end) >= Val(a.frame_start)
\* The task has read a line with a frame marker Fra:<n> of job j.
ReadsFrameLine(j) ==
    ReadsLine(j) /\ LineRead(j).hasFra /\ LineRead(j).fra # None
\* frames_done of the line read, total_frames of the range.
FramesDone(j) == Val(LineRead(j).fra) - Val(Args(j).frame_start) + 1
RangeLength(j) == Val(Args(j).frame_end) - Val(Args(j).frame_start) + 1
\* int() of the double (fd / tf) * 90, tf > 0: the quotient 90 fd / tf cut
\* toward zero, one less where the double falls short of the integer.
Trunc90(fd, tf) ==
    LET q == IF fd >= 0 THEN (90 * fd) \div tf ELSE -((90 * (-fd)) \div tf)
    IN  IF <<fd, tf>> \in FloatShort THEN q - 1 ELSE q

ReadsSampleLine(j) ==
    ReadsLine(j) /\ LineRead(j).sample # None /\ Val(LineRead(j).sample)[2] > 0
NoRange(a) == a.frame_start = None /\ a.frame_end = None
HasRange(a) == a.frame_start # None /\ a.frame_end # None

\* C19: without a frame range, the event a line with a sample marker c/t
\* (t > 0) publishes is 'Sampling c/t' with percent floor(90 c / t), whatever
\* else the line contains; with a frame range, a line whose only marker is
\* a sample marker publishes nothing.
C19_SampleProgress ==
    [][\A j \in Jobs :
          (ReadsSampleLine(j) /\ state'[j] = "PROGRESS") =>
              LET c == Val(LineRead(j).sample)[1]
                  t == Val(LineRead(j).sample)[2]
              IN  /\ NoRange(Args(j)) =>
                         \/ info'[j] = info[j]
                         \/ /\ info'[j].status = <<"Sampling", c, t>>
                            /\ info'[j].progress = (90 * c) \div t
                  /\ ( /\ HasRange(Args(j))
                       /\ ~LineRead(j).hasFra /\ ~LineRead(j).saved )
                     => info'[j] = info[j]]_vars

\* ev is the fixed heartbeat: percent 50, no frame numbers.
IsHeartbeat(ev) ==
    /\ ev.kind = "meta" /\ ev.progress = 50
    /\ ev.current_frame = None /\ ev.total_frames = None

\* C20: the event a line with a frame marker publishes is the heartbeat
\* exactly when the job has no frame range; with a range, also one that
\* starts at 0 or ends at 0, it is the frame-based event with current_frame
\* and total_frames.
C20_HeartbeatIffNoRange ==
    [][\A j \in Jobs :
          (ReadsFrameLine(j) /\ state'[j] = "PROGRESS" /\ info'[j] # info[j]) =>
              /\ NoRange(Args(j)) => IsHeartbeat(info'[j])
              /\ HasRange(Args(j)) =>
                     /\ ~IsHeartbeat(info'[j])
                     /\ info'[j].current_frame = LineRead(j).fra
                     /\ info'[j].total_frames # None]_vars

\* C21: for a job with a frame range, the event of a line Fra:<n> with
\* 0 < frames_done <= total_frames read E seconds after the start carries the
\* ETA (total_frames - frames_done) * E / frames_done, shown as minutes and
\* seconds when it is 60 seconds or more and as seconds otherwise.
C21_EtaFormat ==
    [][\A j \in Jobs :
          ( /\ ReadsFrameLine(j) /\ ProperRange(Args(j))
            /\ state'[j] = "PROGRESS" /\ info'[j] # info[j]
            /\ FramesDone(j) > 0 /\ FramesDone(j) <= RangeLength(j) ) =>
              LET num == (RangeLength(j) - FramesDone(j)) * clock'[j]
                  eta == num \div FramesDone(j)
              IN  info'[j].status[4] =
                      IF eta >= 60 THEN <<"m", eta \div 60, eta % 60>>
                                   ELSE <<"s", eta>>]_vars

\* C22: a job whose render process could not be started is Failed with the
\* spawn error as its reason and leaves nothing behind: its input file is
\* removed and neither the job listing nor the download reader sees an
\* output directory of it.
C22_SpawnFailureLeavesNothing ==
    \A j \in Jobs :
        (Submitted(j) /\ pc[j] = "done" /\ proc[j] = "none"
           /\ info[j] = SpawnError) =>
            /\ Phase(j) = "Failed"
            /\ get_status(j).status = SpawnError.msg
            /\ ~inputExists[j]
            /\ j \notin DOMAIN list_jobs
            /\ ~outdirExists[j]

\* Job j becomes Failed in this step: FAILURE is the one state get_status
\* shows as Failed.
Fails(j) == state[j] # "FAILURE" /\ state'[j] = "FAILURE"

\* C23: the step in which a job becomes Failed (spawn failure, non-zero
\* exit or exception) changes nothing of any other job: its phase and
\* progress (the task state and meta that get_status reads), its input file
\* and its output directory stay as they were; and it gives the
\* worker back to the pool, so that a queued job can be dequeued.
C23_FailureIsolated ==
    [][\A j \in Jobs :
          Fails(j) =>
              /\ \A k \in Jobs \ {j} :
                     /\ state'[k] = state[k] /\ info'[k] = info[k]
                     /\ inputExists'[k] = inputExists[k]
                     /\ outdirExists'[k] = outdirExists[k]
                     /\ outfiles'[k] = outfiles[k]
                     /\ pc'[k] = pc[k] /\ proc'[k] = proc[k]
              /\ j \in Busy /\ Busy' = Busy \ {j}
              /\ Cardinality(Busy') < NumWorkers
              /\ queue' = queue]_vars

\* Job 1 failed while job 2 was running on the other worker, and job 3,
\* which had to wait for a worker, runs on the one job 1 gave back.
C23_Witness ==
    /\ Phase(1) = "Failed"
    /\ Phase(2) = "Running" /\ pc[2] = "loop" /\ inputExists[2]
    /\ Phase(3) = "Running"

\* C24: a line publishes at most one event, chosen by the precedence frame
\* marker, save marker, sample marker: the event of a line containing
\* 'Fra:' is a frame event or the heartbeat, never 'Finalizing...' (95) or
\* a sample event; a line containing 'Saved:' and no 'Fra:' publishes
\* 'Finalizing...' with percent 95, never a sample event (when the backend
\* refuses that update the task fails on it).
C24_MarkerPrecedence ==
    [][\A j \in Jobs :
          ReadsLine(j) =>
              /\ (LineRead(j).hasFra /\ info'[j] # info[j]) =>
                     /\ state'[j] = "PROGRESS"
                     /\ info'[j].status[1] \in {"Rendering frame", "Rendering..."}
                     /\ info'[j].progress # 95
              /\ (LineRead(j).saved /\ ~LineRead(j).hasFra) =>
                     \/ /\ state'[j] = "PROGRESS"
                        /\ info'[j].status = <<"Finalizing...">>
                        /\ info'[j].progress = 95
                     \/ state'[j] = "FAILURE" /\ info'[j] = BackendError]_vars

\* A line with both 'Fra:' and 'Saved:' has published the heartbeat, and a
\* line with 'Saved:' and a sample marker has published 'Finalizing...'.
C24_Witness ==
    /\ Submitted(1) /\ state[1] = "PROGRESS"
    /\ NoRange(Args(1))
    /\ Len(output_lines[1]) = 2
    /\ output_lines[1][1].hasFra /\ output_lines[1][1].saved
    /\ output_lines[1][2].saved /\ output_lines[1][2].sample # None
    /\ info[1].status = <<"Finalizing...">>

====
